---- MODULE Spec2Model ----
(***************************************************************************)
(* A model of ThreadsafeMemo (src/src/threadsafe_memo.rs): the state word  *)
(* with its two tag bits and the intrusive waiter chain in the upper bits, *)
(* the interior (func, value), the Finish guard and the park/unpark        *)
(* protocol.  Every atomic access of the source is one step of a thread.   *)
(* Memo (src/src/memo.rs) and AliasableMemo (src/src/aliasable_memo.rs)    *)
(* are modelled next to it, for one owner who makes the same calls on a    *)
(* cell of each kind.                                                      *)
(***************************************************************************)
EXTENDS Integers, Sequences, FiniteSets, TLC

\* ------------------------------------------------------------------ bounds
NumThreads == 3
MaxCalls == 3
MaxValue == 2

\* --------------------------------------------------------------- constants
UNCALCULATED == 1
WORKING == 0
CALCULATED == 2
POISONED == 3
STATE_MASK == 3

Threads == 1..NumThreads
Values == 1..MaxValue

\* A producer (FnOnce() -> T): either panics or returns its value, as the
\* tests' PoisonCallback { panic, value } does.
Producers ==
  {f \in [panic : BOOLEAN, value : Values] : f.panic => f.value = MaxValue}

\* Option<X>: None is the empty set, Some(x) the singleton.
None == {}
Some(x) == {x}
Unwrap(o) == CHOOSE x \in o : TRUE

\* state & STATE_MASK and state & !STATE_MASK
Tag(s) == s % (STATE_MASK + 1)
HeadOf(s) == s - Tag(s)
\* &spin_state as usize: the node of thread t, aligned to STATE_MASK + 1
Addr(t) == t * (STATE_MASK + 1)
Owner(ptr) == ptr \div (STATE_MASK + 1)
NullPtr == HeadOf(WORKING)

\* What an operation hands back to its caller.
Res(k, v) == [kind |-> k, val |-> v]
NoRes == Res("none", None)
Ok(v) == Res("Ok", Some(v))
OkNone == Res("OkNone", None)
Err == Res("Err", None)
True == Res("true", None)
False == Res("false", None)
Panic == Res("panic", None)

FreshNode == [signaled |-> FALSE, next |-> NullPtr]

VARIABLES
  state,      \* ThreadsafeMemo.state : AtomicUsize
  func,       \* core.func : Option<F>
  value,      \* core.value : Option<T>
  pc,         \* where each thread is in its current call
  lstate,     \* get's local `state`
  spin,       \* each thread's SpinState { signaled, next } (thread = owner)
  dest,       \* finish.destination_state
  head,       \* Finish::drop's local `head`
  cur,        \* Finish::drop's local `spin_state` (its owner), 0 if none
  farg,       \* the producer a call was given (unpoison) or took (get)
  varg,       \* the value unpoison_with_value was given
  out,        \* the result the holder's call will hand back after the drop
  ret,        \* the result of the call that completed last
  token,      \* the park token of each thread
  stale,      \* publishers whose `spin_state` reference outlived the node
  crashed,    \* the process was brought down
  ops,        \* calls started so far
  started,    \* threads that have made a call so far
  calls,      \* producer invocations so far
  installed,  \* the producer put into the cell last (by new or unpoison)
  wins,       \* unpoison(func) calls whose compare_exchange succeeded
  winsV,      \* unpoison_with_value calls whose compare_exchange succeeded
  poisonings, \* publishes of POISONED
  seen,       \* values handed out by get/try_get as Ok
  ctor,       \* how the cell was constructed
  epoch,      \* compare_exchanges into WORKING that succeeded so far
  joined,     \* the epoch a thread holds, or enqueued itself in (0: none)
  tickets,    \* enqueue compare_exchanges that succeeded so far
  ticket,     \* the rank of a waiter's enqueue among all enqueues (0: none)
  treenter,   \* what the ThreadsafeMemo's first producer does with its own cell
  outer,      \* where a thread's get is while its producer's own get runs
  tinner,     \* what that producer's call on its own cell handed back
  script,     \* the calls a single owner makes on a cell of each kind
  given,      \* the value the cells were built with (with_value)
  memo,       \* a Memo { func, value }
  mdone,      \* calls of the script the Memo has completed
  mret,       \* what the Memo handed back last
  mcalls,     \* producer invocations by the Memo
  amemo,      \* an AliasableMemo { calculating_state, memo }
  reenter,    \* what the AliasableMemo's producer does with its own cell
  apc,        \* where the AliasableMemo's get is
  afarg,      \* the producer the AliasableMemo's get took
  inner,      \* what the producer's call on its own cell handed back
  adone,      \* calls of the script the AliasableMemo has completed
  aret,       \* what the AliasableMemo handed back last
  acalls      \* producer invocations by the AliasableMemo

cell == <<state, func, value>>
frame == <<lstate, spin, dest, head, cur, farg, varg, out>>
ghost == <<calls, installed, wins, winsV, poisonings, seen, ctor>>
\* the bookkeeping of WORKING epochs and of the order of enqueues
era == <<epoch, joined, tickets, ticket>>
\* a producer of the ThreadsafeMemo calling into its own cell
nest == <<treenter, outer, tinner>>
\* the cells of the single-owner comparison
seq == <<script, given, memo, mdone, mret, mcalls, amemo, reenter, apc, afarg,
         inner, adone, aret, acalls>>
\* the ThreadsafeMemo, its callers and its bookkeeping
threadsafe ==
  <<cell, pc, frame, ret, token, stale, crashed, ops, started, ghost, era,
    nest>>
vars == <<state, func, value, pc, lstate, spin, dest, head, cur, farg, varg, out, ret,
          token, stale, crashed, ops, started, calls, installed, wins, winsV,
          poisonings, seen, ctor, epoch, joined, tickets, ticket, treenter,
          outer, tinner, script, given, memo, mdone, mret, mcalls,
          amemo, reenter, apc, afarg, inner, adone, aret, acalls>>

\* ------------------------------------------------------------ construction
New(f) ==
  /\ state = UNCALCULATED
  /\ func = Some(f)
  /\ value = None
  /\ installed = Some(f)
  /\ ctor = "new"

WithValue(v) ==
  /\ state = CALCULATED
  /\ func = None
  /\ value = Some(v)
  /\ installed = None
  /\ ctor = "with_value"

\* Memo::new, Memo::with_value (memo.rs)
MemoNew(f) == [func |-> Some(f), value |-> None]
MemoWithValue(v) == [func |-> None, value |-> Some(v)]

\* Faulty variant: with_value leaves the flag as new does.
AliasableWithValueStateUnset == "Uncalculated"

\* aliasable_memo.rs line 26: calculating_state of with_value
AliasableWithValueState == "Calculated"

\* AliasableMemo::new, AliasableMemo::with_value (aliasable_memo.rs)
AliasableNew(f) == [calculating_state |-> "Uncalculated", memo |-> MemoNew(f)]
AliasableWithValue(v) ==
  [calculating_state |-> AliasableWithValueState, memo |-> MemoWithValue(v)]

\* A cell of each kind, built from the same argument.
BuiltNew(f) ==
  /\ New(f)
  /\ memo = MemoNew(f)
  /\ amemo = AliasableNew(f)
  /\ given = None

BuiltWithValue(v) ==
  /\ WithValue(v)
  /\ memo = MemoWithValue(v)
  /\ amemo = AliasableWithValue(v)
  /\ given = Some(v)

\* Nobody has called anything yet.
Idle ==
  /\ pc = [t \in Threads |-> "idle"]
  /\ lstate = [t \in Threads |-> WORKING]
  /\ spin = [t \in Threads |-> FreshNode]
  /\ dest = [t \in Threads |-> POISONED]
  /\ head = [t \in Threads |-> NullPtr]
  /\ cur = [t \in Threads |-> 0]
  /\ farg = [t \in Threads |-> None]
  /\ varg = [t \in Threads |-> None]
  /\ out = [t \in Threads |-> NoRes]
  /\ ret = NoRes
  /\ token = [t \in Threads |-> FALSE]
  /\ stale = {}
  /\ crashed = FALSE
  /\ ops = 0
  /\ started = 0
  /\ calls = 0
  /\ wins = 0
  /\ winsV = 0
  /\ poisonings = 0
  /\ seen = {}
  /\ epoch = 0
  /\ joined = [t \in Threads |-> 0]
  /\ tickets = 0
  /\ ticket = [t \in Threads |-> 0]
  /\ outer = [t \in Threads |-> "none"]
  /\ tinner = NoRes
  /\ mdone = 0
  /\ mret = NoRes
  /\ mcalls = 0
  /\ apc = "idle"
  /\ afarg = None
  /\ inner = NoRes
  /\ adone = 0
  /\ aret = NoRes
  /\ acalls = 0

\* The threads share the ThreadsafeMemo; there is no single-owner script.
Init ==
  /\ \/ \E f \in Producers : BuiltNew(f)
     \/ \E v \in Values : BuiltWithValue(v)
  /\ Idle
  /\ script = <<>>
  /\ reenter = "none"
  /\ treenter = "none"

\* ----------------------------------------------------------------- helpers
\* Threads are interchangeable until they first call: they are numbered in the
\* order of their first call.
CanCall(t) == pc[t] = "idle" /\ ~crashed /\ ops < MaxCalls /\ t <= started + 1

\* Thread t starts a call.
Calls(t) ==
  /\ CanCall(t)
  /\ ops' = ops + 1
  /\ started' = IF t > started THEN t ELSE started

At(t, l) == pc[t] = l /\ ~crashed

Goto(t, l) == pc' = [pc EXCEPT ![t] = l]

\* The call of thread t ends with result r.
Return(t, r) ==
  /\ pc' = [pc EXCEPT ![t] = "idle"]
  /\ ret' = r
  /\ seen' = IF r.kind = "Ok" THEN seen \cup r.val ELSE seen

\* --------------------------------------------------------------------- get
\* The match of get (lines 61-82) on the local `state`.
GetArm(s) ==
  CASE s = POISONED -> "poisoned"
    [] s = CALCULATED -> "calculated"
    [] s = UNCALCULATED -> "uncalculated"
    [] OTHER -> "working"

\* line 59: let mut state = self.state.load(Acquire)
Get_Load(t) ==
  /\ Calls(t)
  /\ lstate' = [lstate EXCEPT ![t] = state]
  /\ Goto(t, "get_match")
  /\ UNCHANGED <<cell, spin, dest, head, cur, farg, varg, out, ret, token, stale,
                 crashed, ghost>>
  /\ UNCHANGED <<era, nest, seq>>

\* line 62: POISONED => return Err(())
Get_Poisoned(t) ==
  /\ At(t, "get_match")
  /\ GetArm(lstate[t]) = "poisoned"
  /\ Return(t, Err)
  /\ lstate' = [lstate EXCEPT ![t] = WORKING]
  /\ UNCHANGED <<cell, spin, dest, head, cur, farg, varg, out, token, stale,
                 crashed, ops, started, calls, installed, wins, winsV, poisonings,
                 ctor>>
  /\ UNCHANGED <<era, nest, seq>>

\* line 63: CALCULATED => Ok(core.value.as_ref().unwrap())
Get_Calculated(t) ==
  /\ At(t, "get_match")
  /\ GetArm(lstate[t]) = "calculated"
  /\ Return(t, IF value = None THEN Panic ELSE Ok(Unwrap(value)))
  /\ lstate' = [lstate EXCEPT ![t] = WORKING]
  /\ UNCHANGED <<cell, spin, dest, head, cur, farg, varg, out, token, stale,
                 crashed, ops, started, calls, installed, wins, winsV, poisonings,
                 ctor>>
  /\ UNCHANGED <<era, nest, seq>>

\* Faulty variants of the entry compare_exchange: a plain store of WORKING, and
\* one that also claims a poisoned cell.
GetEntryCasBlind(s) == TRUE
GetEntryCasRetry(s) == s \in {UNCALCULATED, POISONED}

\* lines 65-68: compare_exchange(UNCALCULATED, WORKING) succeeds on this word
GetEntryCas(s) == s = UNCALCULATED

\* lines 64-75: the entry compare_exchange; the winner arms the Finish guard
Get_Uncalculated(t) ==
  /\ At(t, "get_match")
  /\ GetArm(lstate[t]) = "uncalculated"
  /\ IF GetEntryCas(state)
       THEN /\ state' = WORKING
            /\ dest' = [dest EXCEPT ![t] = POISONED]
            /\ Goto(t, "get_call")
            /\ epoch' = epoch + 1
            /\ joined' = [joined EXCEPT ![t] = epoch + 1]
            /\ UNCHANGED lstate
       ELSE /\ lstate' = [lstate EXCEPT ![t] = state]
            /\ UNCHANGED <<state, dest, pc, epoch, joined>>
  /\ UNCHANGED <<tickets, ticket>>
  /\ UNCHANGED <<func, value, spin, head, cur, farg, varg, out, ret, token, stale,
                 crashed, ops, started, ghost>>
  /\ UNCHANGED <<nest, seq>>

\* line 77: core.func.take() reads the slot (Option::take is a read and a write)
Get_TakeFunc(t) ==
  /\ At(t, "get_call")
  /\ farg' = [farg EXCEPT ![t] = func]
  /\ UNCHANGED varg
  /\ Goto(t, "get_take")
  /\ UNCHANGED <<cell, lstate, spin, dest, head, cur, out, ret, token, stale,
                 crashed, ops, started, ghost>>
  /\ UNCHANGED <<era, nest, seq>>

\* line 77: core.func.take() leaves None; .unwrap()() starts the producer
Get_CallProducer(t) ==
  /\ At(t, "get_take")
  /\ func' = None
  /\ IF farg[t] = None
       THEN \* unwrap on None: the panic unwinds into the guard
            /\ out' = [out EXCEPT ![t] = Panic]
            /\ Goto(t, "drop_swap")
            /\ UNCHANGED calls
       ELSE /\ calls' = calls + 1
            /\ Goto(t, "get_running")
            /\ UNCHANGED out
  /\ UNCHANGED <<state, value, lstate, spin, dest, head, cur, farg, varg, ret,
                 token, stale, crashed, ops, started, installed, wins, winsV,
                 poisonings, seen, ctor>>
  /\ UNCHANGED <<era, nest, seq>>

\* Faulty variant: the destination is promoted before the producer is called.
GetDestinationPromotedEarly(panicked) == CALCULATED

\* The destination the guard holds when the holder's frame is left: armed
\* with POISONED (line 73), promoted to CALCULATED only on line 79.
GetDestination(panicked) == IF panicked THEN POISONED ELSE CALCULATED

\* lines 77-80: the producer returns (core.value = Some(..), destination
\* CALCULATED, return out) or panics (the frame unwinds)
Get_ProducerReturn(t) ==
  /\ At(t, "get_running")
  /\ LET f == Unwrap(farg[t]) IN
       /\ value' = IF f.panic THEN value ELSE Some(f.value)
       /\ out' = [out EXCEPT ![t] = IF f.panic THEN Panic ELSE Ok(f.value)]
       /\ dest' = [dest EXCEPT ![t] = GetDestination(f.panic)]
  /\ farg' = [farg EXCEPT ![t] = None]
  /\ UNCHANGED varg
  /\ Goto(t, "drop_swap")
  /\ UNCHANGED <<state, func, lstate, spin, head, cur, ret, token, stale, crashed,
                 ops, started, ghost>>
  /\ UNCHANGED <<era, nest, seq>>

\* lines 83-90: the waiter arm allocates its SpinState
Get_Working(t) ==
  /\ At(t, "get_match")
  /\ GetArm(lstate[t]) = "working"
  /\ IF Tag(lstate[t]) = WORKING /\ Tag(Addr(t)) = 0
       THEN /\ spin' = [spin EXCEPT ![t] = FreshNode]
            /\ Goto(t, "get_enqueue")
            /\ UNCHANGED <<lstate, ret, seen>>
       ELSE /\ Return(t, Panic)
            /\ lstate' = [lstate EXCEPT ![t] = WORKING]
            /\ UNCHANGED spin
  /\ UNCHANGED <<cell, dest, head, cur, farg, varg, out, token, stale, crashed,
                 ops, started, calls, installed, wins, winsV, poisonings, ctor>>
  /\ UNCHANGED <<era, nest, seq>>

\* Faulty variant: the enqueue compare_exchange compares the tag only.
GetEnqueueCasTagOnly(s, read) == Tag(s) = Tag(read)

\* lines 95-98: compare_exchange(state, spin_state_ptr | WORKING) succeeds on
\* the word s, `read` being the word the waiter read
GetEnqueueCas(s, read) == s = read

\* Faulty variant: the node is tagged with the wrong constant.
EnqueueWordMistagged(t) == Addr(t) + UNCALCULATED

\* line 97: spin_state_ptr | WORKING
EnqueueWord(t) == Addr(t) + WORKING

\* lines 92-101: while state & STATE_MASK == WORKING { next = head; CAS }
Get_Enqueue(t) ==
  /\ At(t, "get_enqueue")
  /\ IF Tag(lstate[t]) = WORKING
       THEN IF GetEnqueueCas(state, lstate[t])
              THEN /\ spin' = [spin EXCEPT ![t].next = HeadOf(lstate[t])]
                   /\ state' = EnqueueWord(t)
                   /\ Goto(t, "get_wait")
                   /\ joined' = [joined EXCEPT ![t] = epoch]
                   /\ tickets' = tickets + 1
                   /\ ticket' = [ticket EXCEPT ![t] = tickets + 1]
                   /\ UNCHANGED lstate
              ELSE /\ spin' = [spin EXCEPT ![t].next = HeadOf(lstate[t])]
                   /\ lstate' = [lstate EXCEPT ![t] = state]
                   /\ UNCHANGED <<state, pc, joined, tickets, ticket>>
       ELSE \* the loop is left without enqueuing; the node goes out of scope
            /\ spin' = [spin EXCEPT ![t] = FreshNode]
            /\ Goto(t, "get_match")
            /\ UNCHANGED <<state, lstate, joined, tickets, ticket>>
  /\ UNCHANGED epoch
  /\ UNCHANGED <<func, value, dest, head, cur, farg, varg, out, ret, token, stale,
                 crashed, ops, started, ghost>>
  /\ UNCHANGED <<nest, seq>>

\* line 103: while !spin_state.signaled.load(Acquire)
Get_CheckSignaled(t) ==
  /\ At(t, "get_wait")
  /\ Goto(t, IF spin[t].signaled THEN "get_reload" ELSE "get_park")
  /\ UNCHANGED <<cell, frame, ret, token, stale, crashed, ops, started, ghost>>
  /\ UNCHANGED <<era, nest, seq>>

\* Faulty variant: `if` for `while`, a return of park counts as the signal.
AfterParkLeave == "get_reload"

\* lines 103-105: after park() the loop tests signaled again
AfterPark == "get_wait"

\* line 104: thread::park() returns by consuming the token
Get_Park(t) ==
  /\ At(t, "get_park")
  /\ token[t]
  /\ token' = [token EXCEPT ![t] = FALSE]
  /\ Goto(t, AfterPark)
  /\ UNCHANGED <<cell, frame, ret, stale, crashed, ops, started, ghost>>
  /\ UNCHANGED <<era, nest, seq>>

\* line 104: thread::park() may return spuriously
Get_ParkSpurious(t) ==
  /\ At(t, "get_park")
  /\ ~token[t]
  /\ Goto(t, AfterPark)
  /\ UNCHANGED <<cell, frame, ret, token, stale, crashed, ops, started, ghost>>
  /\ UNCHANGED <<era, nest, seq>>

\* lines 107-110: reload the word and leave the arm; spin_state is dropped,
\* so a publisher still holding a reference to it now holds a dangling one
Get_Reload(t) ==
  /\ At(t, "get_reload")
  /\ lstate' = [lstate EXCEPT ![t] = state]
  /\ spin' = [spin EXCEPT ![t] = FreshNode]
  /\ stale' = stale \cup {h \in Threads : pc[h] = "drop_unpark" /\ cur[h] = t}
  /\ Goto(t, "get_match")
  /\ joined' = [joined EXCEPT ![t] = 0]
  /\ ticket' = [ticket EXCEPT ![t] = 0]
  /\ UNCHANGED <<epoch, tickets>>
  /\ UNCHANGED <<cell, dest, head, cur, farg, varg, out, ret, token, crashed, ops,
                 started, ghost>>
  /\ UNCHANGED <<nest, seq>>

\* ----------------------------------------------------------------- try_get
\* Faulty variant: only UNCALCULATED is absent, a claimed cell counts as poisoned.
TryGetArmStrict(s) ==
  CASE s = CALCULATED -> "calculated"
    [] s = UNCALCULATED -> "absent"
    [] OTHER -> "poisoned"

\* The match of try_get (lines 116-120) on the loaded word.
TryGetArm(s) ==
  CASE s = POISONED -> "poisoned"
    [] s = CALCULATED -> "calculated"
    [] OTHER -> "absent"

\* lines 115-120: load the word; POISONED => Err(()), _ => Ok(None)
TryGet(t) ==
  /\ Calls(t)
  /\ CASE TryGetArm(state) = "poisoned" -> Return(t, Err)
       [] TryGetArm(state) = "calculated" ->
            /\ Goto(t, "try_get_value")
            /\ UNCHANGED <<ret, seen>>
       [] OTHER -> Return(t, OkNone)
  /\ UNCHANGED <<cell, frame, token, stale, crashed, calls, installed, wins, winsV,
                 poisonings, ctor>>
  /\ UNCHANGED <<era, nest, seq>>

\* line 118: CALCULATED => Ok(core.value.as_ref())
TryGet_Value(t) ==
  /\ At(t, "try_get_value")
  /\ Return(t, IF value = None THEN OkNone ELSE Ok(Unwrap(value)))
  /\ UNCHANGED <<cell, frame, token, stale, crashed, ops, started, calls,
                 installed, wins, winsV, poisonings, ctor>>
  /\ UNCHANGED <<era, nest, seq>>

\* ------------------------------------------------- unpoison, unpoison_with_value
\* Faulty variants of the recovery compare_exchange: a plain store of WORKING,
\* one that recovers any cell without a result, one that also rewrites a result.
UnpoisonCasBlind(s) == TRUE
UnpoisonCasNotCalculated(s) == s # CALCULATED
UnpoisonCasOrCalculated(s) == s \in {POISONED, CALCULATED}

\* lines 142-145, 165-168: compare_exchange(POISONED, WORKING) succeeds on this
\* word
UnpoisonCas(s) == s = POISONED

\* lines 141-150, 160: the compare_exchange; the winner arms the Finish guard
Unpoison(t, f) ==
  /\ Calls(t)
  /\ IF UnpoisonCas(state)
       THEN /\ state' = WORKING
            /\ dest' = [dest EXCEPT ![t] = POISONED]
            /\ farg' = [farg EXCEPT ![t] = Some(f)]
            /\ wins' = wins + 1
            /\ Goto(t, "unpoison_write")
            /\ epoch' = epoch + 1
            /\ joined' = [joined EXCEPT ![t] = epoch + 1]
            /\ UNCHANGED <<ret, seen>>
       ELSE /\ Return(t, False)
            /\ UNCHANGED <<state, dest, farg, wins, epoch, joined>>
  /\ UNCHANGED <<tickets, ticket>>
  /\ UNCHANGED <<func, value, lstate, spin, head, cur, varg, out, token, stale,
                 crashed, calls, installed, winsV, poisonings, ctor>>
  /\ UNCHANGED <<nest, seq>>

\* Faulty variant: the destination of unpoison_with_value, copied into unpoison.
UnpoisonDestinationCopied == CALCULATED

\* line 157: finish.destination_state = UNCALCULATED
UnpoisonDestination == UNCALCULATED

\* lines 151-158: *core = { func: Some(func), value: None }; destination
\* UNCALCULATED; true
Unpoison_Write(t) ==
  /\ At(t, "unpoison_write")
  /\ func' = farg[t]
  /\ value' = None
  /\ dest' = [dest EXCEPT ![t] = UnpoisonDestination]
  /\ out' = [out EXCEPT ![t] = True]
  /\ installed' = farg[t]
  /\ Goto(t, "drop_swap")
  /\ UNCHANGED <<state, lstate, spin, head, cur, farg, varg, ret, token, stale,
                 crashed, ops, started, calls, wins, winsV, poisonings, seen,
                 ctor>>
  /\ UNCHANGED <<era, nest, seq>>

\* lines 164-173, 183: the compare_exchange; the winner arms the Finish guard
UnpoisonWithValue(t, v) ==
  /\ Calls(t)
  /\ IF UnpoisonCas(state)
       THEN /\ state' = WORKING
            /\ dest' = [dest EXCEPT ![t] = POISONED]
            /\ varg' = [varg EXCEPT ![t] = Some(v)]
            /\ winsV' = winsV + 1
            /\ Goto(t, "unpoison_value_write")
            /\ epoch' = epoch + 1
            /\ joined' = [joined EXCEPT ![t] = epoch + 1]
            /\ UNCHANGED <<ret, seen>>
       ELSE /\ Return(t, False)
            /\ UNCHANGED <<state, dest, varg, winsV, epoch, joined>>
  /\ UNCHANGED <<tickets, ticket>>
  /\ UNCHANGED <<func, value, lstate, spin, head, cur, farg, out, token, stale,
                 crashed, calls, installed, wins, poisonings, ctor>>
  /\ UNCHANGED <<nest, seq>>

\* line 180: finish.destination_state = CALCULATED
UnpoisonWithValueDestination == CALCULATED

\* lines 174-181: *core = { func: None, value: Some(value) }; destination
\* CALCULATED; true
UnpoisonWithValue_Write(t) ==
  /\ At(t, "unpoison_value_write")
  /\ func' = None
  /\ value' = varg[t]
  /\ dest' = [dest EXCEPT ![t] = UnpoisonWithValueDestination]
  /\ out' = [out EXCEPT ![t] = True]
  /\ installed' = None
  /\ Goto(t, "drop_swap")
  /\ UNCHANGED <<state, lstate, spin, head, cur, farg, varg, ret, token, stale,
                 crashed, ops, started, calls, wins, winsV, poisonings, seen,
                 ctor>>
  /\ UNCHANGED <<era, nest, seq>>

\* ------------------------------------------------------------ Finish::drop
\* What self.state.swap(self.destination_state, Release) stores.
Published(d) == d

\* lines 194-197: swap in the destination, assert the old tag, take the chain
Finish_Drop_Swap(t) ==
  /\ At(t, "drop_swap")
  /\ state' = Published(dest[t])
  /\ poisonings' = IF state' = POISONED THEN poisonings + 1 ELSE poisonings
  /\ dest' = [dest EXCEPT ![t] = POISONED]
  /\ farg' = [farg EXCEPT ![t] = None]
  /\ varg' = [varg EXCEPT ![t] = None]
  /\ IF Tag(state) = WORKING
       THEN /\ head' = [head EXCEPT ![t] = HeadOf(state)]
            /\ Goto(t, "drop_walk")
            /\ UNCHANGED <<out, ret, seen, crashed>>
       ELSE \* assert_eq! fails: a panic, or an abort when already unwinding
            /\ out' = [out EXCEPT ![t] = NoRes]
            /\ IF out[t] = Panic
                 THEN crashed' = TRUE /\ UNCHANGED <<pc, ret, seen>>
                 ELSE Return(t, Panic) /\ UNCHANGED crashed
            /\ UNCHANGED head
  /\ UNCHANGED <<func, value, lstate, spin, cur, token, stale, ops, started, calls,
                 installed, wins, winsV, ctor, era>>
  /\ UNCHANGED <<nest, seq>>

\* line 198 with head null: the guard is done and the call hands back its result
Finish_Drop_Done(t) ==
  /\ At(t, "drop_walk")
  /\ head[t] = NullPtr
  /\ Return(t, out[t])
  /\ out' = [out EXCEPT ![t] = NoRes]
  /\ joined' = [joined EXCEPT ![t] = 0]
  /\ UNCHANGED <<epoch, tickets, ticket>>
  /\ UNCHANGED <<cell, lstate, spin, dest, head, cur, farg, varg, token, stale,
                 crashed, ops, started, calls, installed, wins, winsV, poisonings,
                 ctor>>
  /\ UNCHANGED <<nest, seq>>

\* The nodes reached from ptr over the next links, at most n of them; a 0 at
\* the end says that more follow.
RECURSIVE Chain(_, _)
Chain(ptr, n) ==
  IF ptr = NullPtr THEN <<>>
  ELSE IF n = 0 THEN <<0>>
  ELSE <<Owner(ptr)>> \o Chain(spin[Owner(ptr)].next, n - 1)

\* Faulty variant: the publish walks to the end of the chain and signals the
\* node enqueued first.
DrainNodeOldest(ptr) ==
  LET c == Chain(ptr, NumThreads) IN c[Len(c)]

\* line 199: let spin_state = &*head
DrainNode(ptr) == Owner(ptr)

\* lines 199-201: spin_state = &*head; head = spin_state.next;
\* spin_state.signaled.store(true, Release)
Finish_Drop_Signal(t) ==
  /\ At(t, "drop_walk")
  /\ head[t] # NullPtr
  /\ LET n == DrainNode(head[t]) IN
       /\ cur' = [cur EXCEPT ![t] = n]
       /\ head' = [head EXCEPT ![t] = spin[n].next]
       /\ spin' = [spin EXCEPT ![n].signaled = TRUE]
  /\ Goto(t, "drop_unpark")
  /\ UNCHANGED <<cell, lstate, dest, farg, varg, out, ret, token, stale, crashed,
                 ops, started, ghost>>
  /\ UNCHANGED <<era, nest, seq>>

\* line 202: spin_state.thread.unpark(), the node still being there
Finish_Drop_Unpark(t) ==
  /\ At(t, "drop_unpark")
  /\ t \notin stale
  /\ token' = [token EXCEPT ![cur[t]] = TRUE]
  /\ cur' = [cur EXCEPT ![t] = 0]
  /\ Goto(t, "drop_walk")
  /\ UNCHANGED <<cell, lstate, spin, dest, head, farg, varg, out, ret, stale,
                 crashed, ops, started, ghost>>
  /\ UNCHANGED <<era, nest, seq>>

\* line 202 once the waiter has left its frame: the thread handle is read from
\* memory that is no longer the node.  The read may still find the waiter's
\* handle (a stray unpark) or bring the process down.
Finish_Drop_UnparkDangling(t) ==
  /\ At(t, "drop_unpark")
  /\ t \in stale
  /\ stale' = stale \ {t}
  /\ \/ /\ token' = [token EXCEPT ![cur[t]] = TRUE]
        /\ cur' = [cur EXCEPT ![t] = 0]
        /\ Goto(t, "drop_walk")
        /\ UNCHANGED crashed
     \/ /\ crashed' = TRUE
        /\ UNCHANGED <<token, cur, pc>>
  /\ UNCHANGED <<cell, lstate, spin, dest, head, farg, varg, out, ret, ops,
                 started, ghost>>
  /\ UNCHANGED <<era, nest, seq>>

\* -------------------------------------------------------- take, try_take
\* panic!("ThreadsafeMemo had an invalid state!") (lines 128, 137)
InvalidState == Res("panic: ThreadsafeMemo had an invalid state!", None)

\* Faulty variant: the POISONED arm is missing from the match.
TakeArmNoPoison(s, f, v) ==
  CASE s = UNCALCULATED /\ f # None /\ v = None -> "uncalculated"
    [] s = CALCULATED /\ f = None /\ v # None -> "calculated"
    [] OTHER -> "invalid"

\* The match of take (lines 124-129) on (state, core).
TakeArm(s, f, v) ==
  CASE s = POISONED -> "poisoned"
    [] s = UNCALCULATED /\ f # None /\ v = None -> "uncalculated"
    [] s = CALCULATED /\ f = None /\ v # None -> "calculated"
    [] OTHER -> "invalid"

\* The match of try_take (lines 133-138) on (state, core).
TryTakeArm(s, f, v) ==
  CASE s = POISONED -> "poisoned"
    [] s = UNCALCULATED -> "absent"
    [] s = CALCULATED /\ f = None /\ v # None -> "calculated"
    [] OTHER -> "invalid"

\* take and try_take receive the cell by value: no call is in progress, and
\* none can follow.
Owned == \A u \in Threads : pc[u] = "idle"

\* lines 123-130: take(self); the UNCALCULATED arm moves the producer out and
\* calls it, its panic leaving take as it is
Take(t) ==
  /\ Calls(t)
  /\ Owned
  /\ pc' = [u \in Threads |-> "taken"]
  /\ LET arm == TakeArm(state, func, value) IN
       /\ ret' = CASE arm = "poisoned" -> Err
                   [] arm = "uncalculated" ->
                        IF Unwrap(func).panic THEN Panic
                                              ELSE Ok(Unwrap(func).value)
                   [] arm = "calculated" -> Ok(Unwrap(value))
                   [] OTHER -> InvalidState
       /\ func' = IF arm = "uncalculated" THEN None ELSE func
       /\ calls' = IF arm = "uncalculated" THEN calls + 1 ELSE calls
  /\ UNCHANGED <<state, value, frame, token, stale, crashed, installed, wins,
                 winsV, poisonings, seen, ctor>>
  /\ UNCHANGED <<era, nest, seq>>

\* lines 132-139: try_take(self)
TryTake(t) ==
  /\ Calls(t)
  /\ Owned
  /\ pc' = [u \in Threads |-> "try_taken"]
  /\ LET arm == TryTakeArm(state, func, value) IN
       ret' = CASE arm = "poisoned" -> Err
                [] arm = "absent" -> OkNone
                [] arm = "calculated" -> Ok(Unwrap(value))
                [] OTHER -> InvalidState
  /\ UNCHANGED <<cell, frame, token, stale, crashed, ghost>>
  /\ UNCHANGED <<era, nest, seq>>

\* ---------------------------------------------------------- specification
\* The steps a thread takes once inside a call; the scheduler runs them.
Step(t) ==
  \/ Get_Poisoned(t)
  \/ Get_Calculated(t)
  \/ Get_Uncalculated(t)
  \/ Get_TakeFunc(t)
  \/ Get_CallProducer(t)
  \/ Get_ProducerReturn(t)
  \/ Get_Working(t)
  \/ Get_Enqueue(t)
  \/ Get_CheckSignaled(t)
  \/ Get_Park(t)
  \/ Get_Reload(t)
  \/ TryGet_Value(t)
  \/ Unpoison_Write(t)
  \/ UnpoisonWithValue_Write(t)
  \/ Finish_Drop_Swap(t)
  \/ Finish_Drop_Done(t)
  \/ Finish_Drop_Signal(t)
  \/ Finish_Drop_Unpark(t)
  \/ Finish_Drop_UnparkDangling(t)

\* A call is made by the environment; a park may return for no reason.
Call(t) ==
  \/ Get_Load(t)
  \/ TryGet(t)
  \/ \E f \in Producers : Unpoison(t, f)
  \/ \E v \in Values : UnpoisonWithValue(t, v)
  \/ Get_ParkSpurious(t)

Next == \E t \in Threads : Step(t) \/ Call(t)

Spec == Init /\ [][Next]_vars

\* Every thread inside a call keeps being scheduled.
FairSpec == Spec /\ \A t \in Threads : WF_vars(Step(t))

\* The cell may also be consumed, by whoever owns it once no call is running.
Consume(t) ==
  \/ Take(t)
  \/ TryTake(t)

TakeNext == \E t \in Threads : Step(t) \/ Call(t) \/ Consume(t)

TakeSpec == Init /\ [][TakeNext]_vars

\* ------------------------------------------- a producer that calls its cell
\* The producer given to new holds a reference to the cell (ThreadsafeMemo is
\* Sync) and, once running, calls get or try_get on it.  Producers installed
\* by unpoison do not.
ThreadsafeReentries == {"get", "try_get"}

\* The running producer is the constructor's and has not made its call yet.
AboutToReenter(t) ==
  /\ At(t, "get_running")
  /\ wins = 0
  /\ outer[t] = "none"
  /\ tinner = NoRes

\* line 77 (inside the producer), line 59: the producer calls get on its own
\* cell; the inner call has its own `state` local (the outer call no longer
\* uses its own) and goes on with the steps of get from the dispatch
Get_InnerGet(t) ==
  /\ AboutToReenter(t)
  /\ treenter = "get"
  /\ outer' = [outer EXCEPT ![t] = pc[t]]
  /\ lstate' = [lstate EXCEPT ![t] = state]
  /\ Goto(t, "get_match")
  /\ UNCHANGED <<cell, spin, dest, head, cur, farg, varg, out, ret, token, stale,
                 crashed, ops, started, ghost, era, treenter, tinner, seq>>

\* line 77 (inside the producer), lines 115-120: the producer calls try_get on
\* its own cell and goes on with what it gets
Get_InnerTryGet(t) ==
  /\ AboutToReenter(t)
  /\ treenter = "try_get"
  /\ tinner' = CASE TryGetArm(state) = "poisoned" -> Err
                 [] TryGetArm(state) = "calculated" ->
                      IF value = None THEN OkNone ELSE Ok(Unwrap(value))
                 [] OTHER -> OkNone
  /\ UNCHANGED <<cell, pc, frame, ret, token, stale, crashed, ops, started, ghost,
                 era, treenter, outer, seq>>

\* lines 77-80: the constructor's producer returns or panics after its call on
\* the cell has come back; a producer installed later, as in Get_ProducerReturn
Get_ReentrantProducerReturn(t) ==
  /\ wins > 0 \/ tinner # NoRes
  /\ Get_ProducerReturn(t)

ReentryInit ==
  /\ \E f \in Producers : BuiltNew(f)
  /\ Idle
  /\ script = <<>>
  /\ reenter = "none"
  /\ treenter \in ThreadsafeReentries

ReentryStep(t) ==
  \/ Get_Poisoned(t)
  \/ Get_Calculated(t)
  \/ Get_Uncalculated(t)
  \/ Get_TakeFunc(t)
  \/ Get_CallProducer(t)
  \/ Get_InnerGet(t)
  \/ Get_InnerTryGet(t)
  \/ Get_ReentrantProducerReturn(t)
  \/ Get_Working(t)
  \/ Get_Enqueue(t)
  \/ Get_CheckSignaled(t)
  \/ Get_Park(t)
  \/ Get_Reload(t)
  \/ TryGet_Value(t)
  \/ Unpoison_Write(t)
  \/ UnpoisonWithValue_Write(t)
  \/ Finish_Drop_Swap(t)
  \/ Finish_Drop_Done(t)
  \/ Finish_Drop_Signal(t)
  \/ Finish_Drop_Unpark(t)
  \/ Finish_Drop_UnparkDangling(t)

ReentryNext == \E t \in Threads : ReentryStep(t) \/ Call(t)

\* Threads share a ThreadsafeMemo whose first producer calls into the cell.
ReentrySpec == ReentryInit /\ [][ReentryNext]_vars

\* ------------------------------------------------------------ Memo (memo.rs)
\* What Memo and AliasableMemo hand back: a T or Some(T), None, or a panic.
Value(v) == Res("value", Some(v))
Absent == Res("absent", None)
\* panic!("Memo had an invalid state!") (memo.rs line 38)
MemoInvalidState == Res("panic: Memo had an invalid state!", None)

\* self.value.as_ref() (memo.rs line 31, try_get)
MemoTryGet(m) == IF m.value = None THEN Absent ELSE Value(Unwrap(m.value))

\* self.value.as_ref().unwrap() (memo.rs line 27)
MemoUnwrap(m) == IF m.value = None THEN Panic ELSE Value(Unwrap(m.value))

\* memo.rs lines 23-28, get: the Memo after the call, what is handed back and
\* the number of invocations
MemoGet(m) ==
  IF m.func = None
    THEN [memo |-> m, ret |-> MemoUnwrap(m), invoked |-> 0]
    ELSE LET f == Unwrap(m.func)
             taken == [m EXCEPT !.func = None]
             stored == [taken EXCEPT !.value = Some(f.value)]
         IN  IF f.panic
               THEN [memo |-> taken, ret |-> Panic, invoked |-> 1]
               ELSE [memo |-> stored, ret |-> MemoUnwrap(stored), invoked |-> 1]

\* memo.rs lines 34-40, take
MemoTake(m) ==
  CASE m.func # None /\ m.value = None ->
         [memo |-> [m EXCEPT !.func = None],
          ret |-> IF Unwrap(m.func).panic THEN Panic
                                          ELSE Value(Unwrap(m.func).value),
          invoked |-> 1]
    [] m.func = None /\ m.value # None ->
         [memo |-> m, ret |-> Value(Unwrap(m.value)), invoked |-> 0]
    [] OTHER -> [memo |-> m, ret |-> MemoInvalidState, invoked |-> 0]

\* Faulty variant: try_take runs the producer as take does.
MemoTryTakeEager(m) == MemoTake(m)

\* memo.rs lines 42-44, try_take
MemoTryTake(m) == [memo |-> m, ret |-> MemoTryGet(m), invoked |-> 0]

\* The calls a single owner can make, take and try_take (by value) only last.
Ops == {"get", "try_get", "take", "try_take"}
Scripts ==
  {s \in UNION {[1..n -> Ops] : n \in 1..MaxCalls} :
     \A i \in 1..(Len(s) - 1) : s[i] \in {"get", "try_get"}}

\* The call the ThreadsafeMemo's owner makes next: the three cells take turns,
\* the ThreadsafeMemo first, then the Memo, then the AliasableMemo.
TsTurn(op) ==
  /\ adone = ops
  /\ ops < Len(script)
  /\ script[ops + 1] = op

TsGet == TsTurn("get") /\ Get_Load(1)
TsTryGet == TsTurn("try_get") /\ TryGet(1)
TsTake == TsTurn("take") /\ Take(1)
TsTryTake == TsTurn("try_take") /\ TryTake(1)

\* The call of the ThreadsafeMemo's owner is over.
TsReturned == pc[1] \in {"idle", "taken", "try_taken"}

MemoTurn(op) ==
  /\ mdone < ops
  /\ TsReturned
  /\ script[mdone + 1] = op

\* The Memo's owner makes its next call; `r` is what the call does.
MemoCall(r) ==
  /\ memo' = r.memo
  /\ mret' = r.ret
  /\ mcalls' = mcalls + r.invoked
  /\ mdone' = mdone + 1
  /\ UNCHANGED <<threadsafe, script, given, amemo, reenter, apc, afarg, inner,
                 adone, aret, acalls>>

Memo_Get == MemoTurn("get") /\ MemoCall(MemoGet(memo))
Memo_TryGet ==
  MemoTurn("try_get")
    /\ MemoCall([memo |-> memo, ret |-> MemoTryGet(memo), invoked |-> 0])
Memo_Take == MemoTurn("take") /\ MemoCall(MemoTake(memo))
Memo_TryTake == MemoTurn("try_take") /\ MemoCall(MemoTryTake(memo))

\* ------------------------------------------ AliasableMemo (aliasable_memo.rs)
\* panic!("AliasableMemo's callback tried to access its own result!")
AccessPanic ==
  Res("panic: AliasableMemo's callback tried to access its own result!", None)

\* What the producer of the AliasableMemo may do with its own cell before it
\* returns or panics.
Reentries == {"none", "get", "try_get"}

\* aliasable_memo.rs lines 48-53, try_get
AliasableTryGet(a) ==
  IF a.calculating_state = "Calculated" THEN MemoTryGet(a.memo) ELSE Absent

\* Faulty variant: the flag is never found set.
CalculatingNeverSeen(a) == FALSE

\* aliasable_memo.rs line 37: if let Calculating = self.calculating_state.get()
Calculating(a) == a.calculating_state = "Calculating"

AliasableTurn(op) ==
  /\ apc = "idle"
  /\ adone < mdone
  /\ script[adone + 1] = op

\* The call of the AliasableMemo's owner ends with r.
AliasableReturn(r) ==
  /\ aret' = r
  /\ adone' = adone + 1
  /\ apc' = "idle"

\* aliasable_memo.rs lines 33-41 and memo.rs line 24: get up to the call of
\* the producer
Aliasable_Get ==
  /\ AliasableTurn("get")
  /\ LET found == AliasableTryGet(amemo)
         marked == [amemo EXCEPT !.calculating_state = "Calculating"]
         entered == [marked EXCEPT !.memo.func = None]
         done == [entered EXCEPT !.calculating_state = "Calculated"]
     IN  CASE found # Absent ->
                /\ AliasableReturn(found)
                /\ UNCHANGED <<amemo, afarg, acalls>>
           [] found = Absent /\ Calculating(amemo) ->
                /\ AliasableReturn(AccessPanic)
                /\ UNCHANGED <<amemo, afarg, acalls>>
           [] found = Absent /\ ~Calculating(amemo) /\ amemo.memo.func # None ->
                /\ amemo' = entered
                /\ afarg' = amemo.memo.func
                /\ acalls' = acalls + 1
                /\ apc' = "running"
                /\ UNCHANGED <<aret, adone>>
           [] OTHER ->
                \* no producer: Memo::get unwraps the value
                /\ AliasableReturn(MemoUnwrap(amemo.memo))
                /\ amemo' = IF amemo.memo.value = None THEN entered ELSE done
                /\ UNCHANGED <<afarg, acalls>>
  /\ UNCHANGED <<threadsafe, script, given, memo, mdone, mret, mcalls, reenter,
                 inner>>

\* The producer, running, calls get on its own cell (lines 33-45): the panic
\* of line 38 unwinds through the producer and through the outer get.  Past
\* that check the inner call would run Memo::get on the Memo the outer call is
\* in, finding the producer taken.
Aliasable_InnerGet ==
  /\ apc = "running"
  /\ reenter = "get"
  /\ LET found == AliasableTryGet(amemo)
         again == MemoGet(amemo.memo)
     IN  CASE found # Absent ->
                /\ inner' = found
                /\ apc' = "resumed"
                /\ UNCHANGED <<amemo, aret, adone, acalls>>
           [] found = Absent /\ Calculating(amemo) ->
                /\ inner' = AccessPanic
                /\ AliasableReturn(AccessPanic)
                /\ UNCHANGED <<amemo, acalls>>
           [] OTHER ->
                /\ inner' = again.ret
                /\ acalls' = acalls + again.invoked
                /\ amemo' = [amemo EXCEPT
                               !.memo = again.memo,
                               !.calculating_state =
                                  IF again.ret = Panic THEN "Calculating"
                                                       ELSE "Calculated"]
                /\ IF again.ret = Panic
                     THEN AliasableReturn(Panic)
                     ELSE apc' = "resumed" /\ UNCHANGED <<aret, adone>>
  /\ UNCHANGED <<threadsafe, script, given, memo, mdone, mret, mcalls, reenter,
                 afarg>>

\* The producer, running, calls try_get on its own cell (lines 48-53) and goes
\* on with what it gets.
Aliasable_InnerTryGet ==
  /\ apc = "running"
  /\ reenter = "try_get"
  /\ inner' = AliasableTryGet(amemo)
  /\ apc' = "resumed"
  /\ UNCHANGED <<threadsafe, script, given, memo, mdone, mret, mcalls, amemo,
                 reenter, afarg, adone, aret, acalls>>

\* Faulty variant: the unwinding puts the flag back.
AliasableUnwoundReset(a) == [a EXCEPT !.calculating_state = "Uncalculated"]

\* aliasable_memo.rs lines 40-42: the producer's panic unwinds through
\* self.memo.get() and through get; line 42 is not reached and nothing on the
\* way touches the cell.
AliasableUnwound(a) == a

\* memo.rs lines 25-27 and aliasable_memo.rs lines 42-43: the producer
\* returns (the value is stored, the flag set to Calculated) or panics (get
\* unwinds, the flag staying as it is)
Aliasable_ProducerReturn ==
  /\ \/ apc = "running" /\ reenter = "none"
     \/ apc = "resumed"
  /\ LET f == Unwrap(afarg)
         stored == [amemo EXCEPT !.memo.value = Some(f.value)]
     IN  IF f.panic
           THEN /\ AliasableReturn(Panic)
                /\ amemo' = AliasableUnwound(amemo)
           ELSE /\ AliasableReturn(MemoUnwrap(stored.memo))
                /\ amemo' = [stored EXCEPT !.calculating_state = "Calculated"]
  /\ afarg' = None
  /\ UNCHANGED <<threadsafe, script, given, memo, mdone, mret, mcalls, reenter,
                 inner, acalls>>

\* aliasable_memo.rs lines 48-53: try_get called by the owner
Aliasable_TryGet ==
  /\ AliasableTurn("try_get")
  /\ AliasableReturn(AliasableTryGet(amemo))
  /\ UNCHANGED <<threadsafe, script, given, memo, mdone, mret, mcalls, amemo,
                 reenter, afarg, inner, acalls>>

\* aliasable_memo.rs lines 55-61: take and try_take are the Memo's; `r` is
\* what the Memo's call does
AliasableInto(r) ==
  /\ AliasableReturn(r.ret)
  /\ amemo' = [amemo EXCEPT !.memo = r.memo]
  /\ acalls' = acalls + r.invoked
  /\ UNCHANGED <<threadsafe, script, given, memo, mdone, mret, mcalls, reenter,
                 afarg, inner>>

Aliasable_Take == AliasableTurn("take") /\ AliasableInto(MemoTake(amemo.memo))
Aliasable_TryTake ==
  AliasableTurn("try_take") /\ AliasableInto(MemoTryTake(amemo.memo))

\* ------------------------------------------------- single-owner comparison
\* The steps of the ThreadsafeMemo's calls when there is one caller.
TsStep ==
  \/ Get_Poisoned(1)
  \/ Get_Calculated(1)
  \/ Get_Uncalculated(1)
  \/ Get_TakeFunc(1)
  \/ Get_CallProducer(1)
  \/ Get_ProducerReturn(1)
  \/ TryGet_Value(1)
  \/ Finish_Drop_Swap(1)
  \/ Finish_Drop_Done(1)

SeqInit ==
  /\ \/ \E f \in Producers : BuiltNew(f) /\ reenter \in Reentries
     \/ \E v \in Values : BuiltWithValue(v) /\ reenter = "none"
  /\ Idle
  /\ script \in Scripts
  /\ treenter = "none"

SeqNext ==
  \/ TsGet
  \/ TsTryGet
  \/ TsTake
  \/ TsTryTake
  \/ TsStep
  \/ Memo_Get
  \/ Memo_TryGet
  \/ Memo_Take
  \/ Memo_TryTake
  \/ Aliasable_Get
  \/ Aliasable_InnerGet
  \/ Aliasable_InnerTryGet
  \/ Aliasable_ProducerReturn
  \/ Aliasable_TryGet
  \/ Aliasable_Take
  \/ Aliasable_TryTake

\* One owner runs the same script on a cell of each kind.
SeqSpec == SeqInit /\ [][SeqNext]_vars

\* ------------------------------------------------------------------ claims
\* A holder between its entry compare_exchange and its publish swap.
BeforePublish ==
  {"get_call", "get_take", "get_running", "unpoison_write",
   "unpoison_value_write", "drop_swap"}
Holders == {t \in Threads : pc[t] \in BeforePublish}
\* A waiter between its enqueue compare_exchange and its reload.
Waiting == {"get_wait", "get_park", "get_reload"}
\* unpoison and unpoison_with_value calls that won their compare_exchange; such
\* a call can only hand back true.
Recoveries == wins + winsV
InGet(t) ==
  pc[t] \in {"get_match", "get_enqueue", "get_call", "get_take", "get_running"}
    \cup Waiting

\* C1: whatever the interleaving of get, try_get, unpoison and
\* unpoison_with_value, the producers invoked number at most one more than the
\* unpoison(producer) calls that succeeded; with no such call, at most one.
C1_ProducerInvocationsBounded == calls <= 1 + wins

\* C1 happens: a second invocation, after one successful unpoison.
C1_Witness == calls = 2 /\ wins = 1

\* C2: on a cell made by new and never recovered, at most one thread is the
\* holder and the producer runs at most once; a call hands back a result only
\* after the publish, Ok with the producer's value where it returned and Err
\* where it panicked (the holder itself leaves by the panic).
C2_OneHolderOthersSeePublished ==
  (ctor = "new" /\ Recoveries = 0) =>
    /\ Cardinality(Holders) <= 1
    /\ calls <= 1
    /\ ret.kind \in {"Ok", "Err", "panic"} =>
         /\ calls = 1
         /\ Holders = {}
         /\ state \in {CALCULATED, POISONED}
    /\ ret.kind = "Ok" =>
         /\ state = CALCULATED
         /\ value = ret.val
         /\ ~Unwrap(installed).panic
         /\ ret.val = Some(Unwrap(installed).value)
    /\ ret.kind \in {"Err", "panic"} =>
         /\ state = POISONED
         /\ Unwrap(installed).panic

\* C2 happens: a get has handed back the value while another caller, enqueued
\* during the computation, has been signaled and is about to reload the word.
C2_Witness ==
  /\ ctor = "new" /\ Recoveries = 0
  /\ ret.kind = "Ok"
  /\ \E t \in Threads : pc[t] = "get_reload"

\* C3: a panic of the producer unwinds through the guard, which publishes
\* POISONED; once the holder has left (and until a recovery), the word is
\* POISONED, not WORKING, and the get that completes next hands back Err.
C3_PanicPublishesPoisoned ==
  /\ [](\A t \in Threads :
          (pc[t] = "drop_swap" /\ out[t] = Panic) => dest[t] = POISONED)
  /\ []((ret = Panic /\ Recoveries = 0) => state = POISONED)
  /\ [][(ret = Panic /\ Recoveries = 0) =>
          \A t \in Threads : (InGet(t) /\ pc'[t] = "idle") => ret' = Err]_vars

\* C3 happens: the holder has left by the panic and a later get has loaded the
\* poisoned word.
C3_Witness ==
  /\ ret = Panic
  /\ state = POISONED
  /\ \E t \in Threads : pc[t] = "get_match" /\ lstate[t] = POISONED

\* C4: while the word is POISONED, no step but a winning unpoison or
\* unpoison_with_value changes the word, the interior or the number of
\* invocations, and a get or try_get that reads POISONED hands back Err.
C4_PoisonedIsSticky ==
  /\ [][state = POISONED =>
          \/ /\ UNCHANGED <<state, func, value, calls>>
             /\ \A t \in Threads : pc'[t] \notin BeforePublish
          \/ /\ state' = WORKING
             /\ Recoveries' = Recoveries + 1]_vars
  /\ [][\A t \in Threads :
          (pc[t] = "get_match" /\ lstate[t] = POISONED /\ pc'[t] # pc[t]) =>
            (pc'[t] = "idle" /\ ret' = Err)]_vars
  /\ [][\A t \in Threads :
          (TryGet(t) /\ state = POISONED) => (pc'[t] = "idle" /\ ret' = Err)]_vars

\* C4 happens: a get that found the cell poisoned has handed back Err, and
\* another caller that read the word before the poisoning is still in get.
C4_Witness ==
  /\ state = POISONED
  /\ ret = Err
  /\ \E t \in Threads : pc[t] = "get_match" /\ lstate[t] = UNCALCULATED

\* C5: every poisoning is recovered by at most one unpoison or
\* unpoison_with_value call, and by the first one that finds the word
\* POISONED; every other call hands back false.
C5_OneRecoveryPerPoisoning ==
  /\ [](poisonings = Recoveries + (IF state = POISONED THEN 1 ELSE 0))
  /\ [](ret = True => Recoveries >= 1)
  /\ [][\A t \in Threads :
          ((\E f \in Producers : Unpoison(t, f))
             \/ (\E v \in Values : UnpoisonWithValue(t, v))) =>
            IF state = POISONED
              THEN Recoveries' = Recoveries + 1 /\ pc'[t] # "idle"
              ELSE Recoveries' = Recoveries /\ ret' = False]_vars

\* C5 happens: after one poisoning, one recovery is under way and a concurrent
\* recovery call has handed back false.
C5_Witness ==
  /\ poisonings = 1
  /\ Recoveries = 1
  /\ ret = False
  /\ \E t \in Threads : pc[t] \in {"unpoison_write", "unpoison_value_write"}

\* A step in which thread t calls unpoison or unpoison_with_value.
UnpoisonCall(t) ==
  \/ \E f \in Producers : Unpoison(t, f)
  \/ \E v \in Values : UnpoisonWithValue(t, v)

\* C6: unpoison or unpoison_with_value on a word that is not POISONED
\* (UNCALCULATED, CALCULATED, WORKING with any chain) hands back false in that
\* one step and changes neither the word, the chain, the producer slot nor the
\* result slot; its producer is neither installed nor invoked.
C6_FailedRecoveryTouchesNothing ==
  [][\A t \in Threads :
       (UnpoisonCall(t) /\ state # POISONED) =>
         /\ pc'[t] = "idle"
         /\ ret' = False
         /\ UNCHANGED <<state, func, value, spin, token, installed, calls, farg,
                        varg>>]_vars

\* C6 happens: a recovery call has handed back false while the word was
\* WORKING with a waiter on its chain.
C6_Witness ==
  /\ ret = False
  /\ Tag(state) = WORKING
  /\ HeadOf(state) # NullPtr
  /\ Recoveries = 0

\* C7: the recovery that won publishes the state matching what it wrote:
\* unpoison publishes UNCALCULATED over (its producer, no result),
\* unpoison_with_value publishes CALCULATED over (no producer, its value); an
\* UNCALCULATED cell holds the producer installed last, the get that claims it
\* invokes that producer, once, and hands back its value.
C7_RecoveryPublishesMatchingState ==
  /\ \A t \in Threads :
       (pc[t] = "drop_swap" /\ out[t] = True) =>
         \/ /\ farg[t] # None
            /\ dest[t] = UNCALCULATED
            /\ func = farg[t]
            /\ value = None
         \/ /\ varg[t] # None
            /\ dest[t] = CALCULATED
            /\ func = None
            /\ value = varg[t]
  /\ state = UNCALCULATED => (func # None /\ func = installed /\ value = None)
  /\ state = CALCULATED => (func = None /\ value # None)
  /\ \A t \in Threads : pc[t] = "get_running" => farg[t] = installed
  /\ \A t \in Threads :
       out[t].kind = "Ok" => out[t].val = Some(Unwrap(installed).value)
  /\ calls + (IF func # None THEN 1 ELSE 0)
       <= (IF ctor = "new" THEN 1 ELSE 0) + wins
  /\ ret.kind = "Ok" => ret.val = value

\* C7 happens: unpoison succeeded, and the next get has invoked the new
\* producer and handed back its value.
C7_Witness ==
  /\ wins = 1
  /\ calls = 2
  /\ ret.kind = "Ok"
  /\ ret.val = Some(Unwrap(installed).value)
  /\ state = CALCULATED

\* C8: once a get or try_get has handed back Ok(v), the word stays CALCULATED,
\* the result slot keeps v, nobody is or becomes a holder, no producer is
\* invoked and every Ok handed back carries v.
C8_CalculatedIsAbsorbing ==
  /\ [](seen # {} =>
          /\ state = CALCULATED
          /\ value = seen
          /\ Holders = {}
          /\ (ret.kind = "Ok" => ret.val = seen))
  /\ [][seen # {} => UNCHANGED <<state, func, value, calls>>]_vars

\* C8 happens: after a value was handed out, a recovery call was tried and
\* handed back false.
C8_Witness ==
  /\ seen # {}
  /\ ret = False

\* C9: try_get hands back Ok(Some(v)) exactly on CALCULATED, Err exactly on
\* POISONED and Ok(None) on UNCALCULATED and on WORKING with any chain; it
\* never waits, enqueues or parks, invokes nothing, and leaves the word and
\* the interior as they are.
C9_TryGetIsAPeek ==
  /\ [][\A t \in Threads :
          TryGet(t) =>
            /\ UNCHANGED <<state, func, value, calls, spin, token>>
            /\ state = POISONED => (pc'[t] = "idle" /\ ret' = Err)
            /\ state = CALCULATED => pc'[t] = "try_get_value"
            /\ state \notin {POISONED, CALCULATED} =>
                 (pc'[t] = "idle" /\ ret' = OkNone)]_vars
  /\ [][\A t \in Threads :
          TryGet_Value(t) =>
            /\ UNCHANGED <<state, func, value, calls, spin, token>>
            /\ state = CALCULATED
            /\ value # None
            /\ pc'[t] = "idle"
            /\ ret' = Ok(Unwrap(value))]_vars

\* C9 happens: try_get has handed back Ok(None) while the word was WORKING
\* with a waiter on its chain.
C9_Witness ==
  /\ ret = OkNone
  /\ Tag(state) = WORKING
  /\ HeadOf(state) # NullPtr

\* C10: under fair scheduling every thread that has enqueued itself on the
\* chain is eventually signaled and leaves its park loop (and then its get
\* hands back): no wakeup is lost, a park that returns early parks again.
C10_WaitersEventuallySignaled ==
  \A t \in Threads : (pc[t] \in {"get_wait", "get_park"}) ~> (pc[t] = "get_reload")

\* C11: with no operation in progress, take hands back Err on POISONED, the
\* stored value on CALCULATED, and on UNCALCULATED invokes the installed
\* producer exactly once and hands back what it produced (its panic, if it
\* panics); try_take hands back Err on POISONED, Ok(Some(value)) on CALCULATED
\* and Ok(None), invoking nothing, on UNCALCULATED; neither ever reaches the
\* "invalid state" panic, because a cell with no call in progress is never
\* WORKING and its interior matches its word.
C11_TakeFollowsState ==
  /\ [](Owned => /\ state \in {UNCALCULATED, CALCULATED, POISONED}
                 /\ state = UNCALCULATED => (func = installed /\ func # None
                                              /\ value = None)
                 /\ state = CALCULATED => (func = None /\ value # None))
  /\ [][\A t \in Threads :
          Take(t) =>
            /\ ret' # InvalidState
            /\ state = POISONED => (ret' = Err /\ calls' = calls)
            /\ state = CALCULATED =>
                 (ret' = Ok(Unwrap(value)) /\ calls' = calls)
            /\ state = UNCALCULATED =>
                 /\ calls' = calls + 1
                 /\ func' = None
                 /\ ret' = IF Unwrap(installed).panic
                             THEN Panic
                             ELSE Ok(Unwrap(installed).value)]_vars
  /\ [][\A t \in Threads :
          TryTake(t) =>
            /\ ret' # InvalidState
            /\ calls' = calls
            /\ state = POISONED => ret' = Err
            /\ state = CALCULATED => ret' = Ok(Unwrap(value))
            /\ state = UNCALCULATED => ret' = OkNone]_vars

\* C11 happens: a cell recovered by unpoison was consumed by take, which
\* invoked the new producer and handed back its value.
C11_Witness ==
  /\ \A t \in Threads : pc[t] = "taken"
  /\ wins = 1
  /\ calls = 2
  /\ ret.kind = "Ok"

\* The panics of the three kinds of cell.
Panics == {Panic, InvalidState, MemoInvalidState, AccessPanic}

\* C12: a Memo, an AliasableMemo and a ThreadsafeMemo built by with_value(v)
\* hand back v from every get, try_get, take and try_take (the ThreadsafeMemo
\* as Ok), and none of them ever invokes a producer.
C12_WithValueReturnsIt ==
  given # None =>
    /\ calls = 0 /\ mcalls = 0 /\ acalls = 0
    /\ ret \in {NoRes, Ok(Unwrap(given))}
    /\ (ops > 0 /\ TsReturned) => ret = Ok(Unwrap(given))
    /\ mret = (IF mdone > 0 THEN Value(Unwrap(given)) ELSE NoRes)
    /\ aret = (IF adone > 0 THEN Value(Unwrap(given)) ELSE NoRes)

\* C12 happens: the three cells built by with_value went through get or
\* try_get and were then consumed by take.
C12_Witness ==
  /\ given # None
  /\ Len(script) > 1
  /\ adone = Len(script)
  /\ script[adone] = "take"
  /\ aret = Value(Unwrap(given))

\* C13: when the producer of an AliasableMemo calls get on its own cell, that
\* call ends in the panic of the Calculating check, before it touches the
\* Memo: it hands back nothing and the producer is not invoked again.  The
\* panic takes the outer get with it, and no later call on the cell hands back
\* a value or invokes anything.
C13_ReentrantGetPanics ==
  /\ [][Aliasable_InnerGet =>
          /\ inner' = AccessPanic
          /\ aret' = AccessPanic
          /\ apc' = "idle"
          /\ UNCHANGED <<amemo, acalls>>]_vars
  /\ [](reenter = "get" => inner \in {NoRes, AccessPanic})
  /\ [](inner = AccessPanic => (acalls = 1 /\ aret.kind # "value"))

\* C13 happens: the producer was invoked and its get on its own cell panicked.
C13_Witness ==
  /\ reenter = "get"
  /\ inner = AccessPanic
  /\ aret = AccessPanic
  /\ acalls = 1

\* C14: try_get on an AliasableMemo whose producer is running fails fatally
\* instead of handing anything back.
C14_ReentrantTryGetFails ==
  (reenter = "try_get" /\ inner # NoRes) => inner \in Panics

\* A producer that neither panics nor calls into its own cell (or none at all).
Plain == reenter = "none" /\ (installed = None \/ ~Unwrap(installed).panic)

\* Result<_, ()>::Ok around what a Memo hands back.
WrapOk(r) ==
  CASE r.kind = "value" -> Ok(Unwrap(r.val))
    [] r = Absent -> OkNone
    [] OTHER -> r

\* C15: one owner calling get and try_get, and at the end possibly take or
\* try_take, with a plain producer: after every call the Memo, the
\* AliasableMemo and the ThreadsafeMemo have handed back the same (the
\* ThreadsafeMemo inside Ok) and invoked the producer equally often, at most
\* once; try_get and try_take before the first get hand back nothing and
\* invoke nothing, get and take hand back the producer's value, and so does
\* everything after the first get.
C15_SingleOwnerCellsAgree ==
  Plain =>
    /\ calls <= 1 /\ mcalls <= 1 /\ acalls <= 1
    /\ (adone = ops /\ ops > 0) =>
         LET op == script[ops]
             computed == given # None \/ \E i \in 1..(ops - 1) : script[i] = "get"
             expected == IF given # None THEN Unwrap(given)
                                         ELSE Unwrap(installed).value
         IN  /\ mret = aret
             /\ ret = WrapOk(mret)
             /\ calls = mcalls
             /\ mcalls = acalls
             /\ (op \in {"get", "take"} \/ computed) => mret = Value(expected)
             /\ (op \in {"try_get", "try_take"} /\ ~computed) =>
                  (mret = Absent /\ mcalls = 0)
             /\ mcalls = (IF given = None /\ (computed \/ op \in {"get", "take"})
                            THEN 1 ELSE 0)

\* C15 happens: try_get before the first get, the get, then try_take, on cells
\* built by new.
C15_Witness ==
  /\ Plain
  /\ given = None
  /\ script = <<"try_get", "get", "try_take">>
  /\ adone = Len(script)
  /\ calls = 1

\* The waiter chain encoded in the state word, and the rest of the chain a
\* publisher took out of it.
StateChain == Chain(HeadOf(state), NumThreads)
LocalChain(p) == Chain(head[p], NumThreads)
Range(c) == {c[i] : i \in 1..Len(c)}
\* A waiter past its enqueue compare_exchange that has not seen its flag set.
Parking == {"get_wait", "get_park"}
\* A publisher between its swap and the end of its walk.
Draining == {"drop_walk", "drop_unpark"}

\* C16: at most one thread is a holder (between its compare_exchange into
\* WORKING, in get or in unpoison*, and its publish swap), the word is WORKING
\* while there is one, and the producer slot and the result slot change only
\* in steps of that holder.
C16_OneHolderWritesInterior ==
  /\ [](Cardinality(Holders) <= 1)
  /\ [](Holders # {} => Tag(state) = WORKING)
  /\ [](\A t \in Holders : joined[t] = epoch)
  /\ [][<<func, value>>' # <<func, value>> =>
          \E t \in Holders : pc'[t] # pc[t] /\ \A u \in Threads \ {t} : pc'[u] = pc[u]]_vars

\* C16 happens: the recovering thread is the holder and is about to write the
\* interior while a get that found the word WORKING sits on the chain.
C16_Witness ==
  /\ \E t \in Holders : pc[t] = "unpoison_write"
  /\ \E u \in Threads : pc[u] \in Parking
  /\ func = None

\* C17: the publish reads a waiter's node only while the node exists: no
\* publisher is about to read the thread handle of a node whose owner has seen
\* its flag and left the waiter arm.
C17_NodeReadWithinLifetime ==
  \A p \in Threads : pc[p] = "drop_unpark" => p \notin stale

\* C18: the chain in the state word ends at null, has no cycle and holds no
\* node twice, and each of its nodes belongs to a thread that is past its
\* enqueue compare_exchange and has not seen its flag set (it is parked or
\* about to park); a word that is not WORKING carries no chain.
C18_ChainIsWellFormed ==
  /\ Tag(state) # WORKING => HeadOf(state) = NullPtr
  /\ \A i \in 1..Len(StateChain) :
       /\ StateChain[i] \in Threads
       /\ pc[StateChain[i]] \in Parking
       /\ ~spin[StateChain[i]].signaled
       /\ ticket[StateChain[i]] # 0
  /\ \A i, j \in 1..Len(StateChain) : StateChain[i] = StateChain[j] => i = j

\* C18 happens: two waiters are on the chain, one of them parked.
C18_Witness ==
  /\ Len(StateChain) = 2
  /\ \E t \in Range(StateChain) : pc[t] = "get_park"

\* C19: the publish swap takes the whole chain out of the word at once; a
\* waiter's flag is set once, while it is clear, by the publisher of the epoch
\* the waiter enqueued in and by nothing else; a waiter whose flag is clear is
\* in exactly one place, the chain of the word (its epoch being the running
\* one) or the rest of the chain its epoch's publisher walks; and an enqueue
\* compare_exchange succeeds only on the very word the waiter read.
C19_PublishDrainsChainOnce ==
  /\ [][\A p \in Threads :
          Finish_Drop_Swap(p) =>
            /\ HeadOf(state') = NullPtr
            /\ head'[p] = HeadOf(state)
            /\ joined[p] = epoch]_vars
  /\ [][\A p \in Threads :
          Finish_Drop_Signal(p) =>
            LET n == Owner(head[p])
            IN  /\ joined[n] = joined[p]
                /\ pc[n] \in Parking
                /\ ~spin[n].signaled
                /\ spin'[n].signaled]_vars
  /\ [][\A n \in Threads :
          (spin'[n].signaled /\ ~spin[n].signaled) =>
            \E p \in Threads : Finish_Drop_Signal(p) /\ Owner(head[p]) = n]_vars
  /\ [](\A n \in Threads :
          (pc[n] \in Parking /\ ~spin[n].signaled) =>
            LET walkers == {p \in Threads : /\ pc[p] \in Draining
                                            /\ n \in Range(LocalChain(p))}
            IN  IF n \in Range(StateChain)
                  THEN /\ walkers = {}
                       /\ joined[n] = epoch
                       /\ \E h \in Holders : joined[h] = epoch
                  ELSE /\ Cardinality(walkers) = 1
                       /\ \A p \in walkers : joined[p] = joined[n])
  /\ [][\A t \in Threads :
          (pc[t] = "get_enqueue" /\ pc'[t] = "get_wait") =>
            /\ state = lstate[t]
            /\ Tag(state) = WORKING
            /\ joined'[t] = epoch]_vars

\* C19 happens: the publish of a recovery (the second epoch) has set the flag
\* of a waiter that enqueued itself in that epoch.
C19_Witness ==
  \E p, n \in Threads :
    /\ pc[p] = "drop_unpark"
    /\ cur[p] = n
    /\ spin[n].signaled
    /\ joined[n] = joined[p]
    /\ joined[p] > 1

\* C20: within one publish the flags are set in the reverse order of the
\* enqueues: of two waiters of one epoch, the flag of the one whose enqueue
\* compare_exchange came first is not set while the other's is clear, and
\* the node a publisher signals is the latest of its epoch still waiting.
C20_SignaledInLifoOrder ==
  /\ [](\A a, b \in Threads :
          (/\ pc[a] \in Waiting /\ pc[b] \in Waiting
           /\ joined[a] = joined[b]
           /\ ticket[a] < ticket[b]
           /\ spin[a].signaled) => spin[b].signaled)
  /\ [][\A p \in Threads :
          Finish_Drop_Signal(p) =>
            \A m \in Threads :
              (/\ pc[m] \in Parking /\ ~spin[m].signaled
               /\ joined[m] = joined[p]) =>
                ticket[m] <= ticket[Owner(head[p])]]_vars

\* C20 happens: of two waiters of one epoch the later one has its flag set and
\* the earlier one not yet.
C20_Witness ==
  \E a, b \in Threads :
    /\ pc[a] \in Parking /\ pc[b] \in Waiting
    /\ joined[a] = joined[b]
    /\ ticket[a] < ticket[b]
    /\ spin[b].signaled
    /\ ~spin[a].signaled

\* C21: the assertion of Finish::drop holds: the word a holder swaps out has
\* the tag WORKING.  From a holder's compare_exchange into WORKING to its own
\* swap the tag is WORKING at every step: an enqueue changes the head bits
\* only, and the entry compare_exchanges of get and unpoison* fail.
C21_HolderSwapsOutWorking ==
  /\ [][\A p \in Threads : Finish_Drop_Swap(p) => Tag(state) = WORKING]_vars
  /\ [][Holders # {} =>
          \/ Tag(state') = WORKING
          \/ \E h \in Holders : Finish_Drop_Swap(h)]_vars
  /\ [][\A t \in Threads :
          (Get_Enqueue(t) /\ state' # state) =>
            (Tag(state') = Tag(state) /\ HeadOf(state') = Addr(t))]_vars
  /\ [][\A t \in Threads :
          (Holders # {} /\ (UnpoisonCall(t) \/ Get_Uncalculated(t))) =>
            state' = state]_vars

\* C21 happens: a holder has swapped out a word with a waiter on it, after a
\* recovery call had failed on the WORKING word.
C21_Witness ==
  /\ \E p \in Threads : pc[p] = "drop_walk" /\ head[p] # NullPtr
  /\ ret = False
  /\ Recoveries = 0

\* The cell has not been moved into take or try_take.
Live == \A t \in Threads : pc[t] \notin {"taken", "try_taken"}

\* C22: while the cell exists, UNCALCULATED goes with an occupied producer slot
\* and an empty result slot, CALCULATED with an occupied result slot and an
\* empty producer slot; the slots are already so when the holder is about to
\* publish either tag; hence the unwraps of get (lines 63, 77), the read of
\* try_get and the matches of take and try_take never fail.
C22_InteriorMatchesTag ==
  /\ [](Live =>
          /\ (state = UNCALCULATED => (func # None /\ value = None))
          /\ (state = CALCULATED => (value # None /\ func = None)))
  /\ [](\A t \in Threads :
          pc[t] = "drop_swap" =>
            /\ (dest[t] = CALCULATED => (value # None /\ func = None))
            /\ (dest[t] = UNCALCULATED => (func # None /\ value = None)))
  /\ [][\A t \in Threads :
          /\ (Get_Calculated(t) \/ TryGet_Value(t)) =>
               (value # None /\ ret' = Ok(Unwrap(value)))
          /\ Get_CallProducer(t) => farg[t] # None
          /\ (Take(t) \/ TryTake(t)) => ret' # InvalidState]_vars

\* C22 happens: a recovered cell was taken, the match of take finding the
\* installed producer under UNCALCULATED and running it.
C22_Witness ==
  /\ \A t \in Threads : pc[t] = "taken"
  /\ state = UNCALCULATED
  /\ wins = 1
  /\ calls = 2
  /\ installed # None
  /\ ret = Ok(Unwrap(installed).value)

\* C23: whenever the published tag is UNCALCULATED, CALCULATED or POISONED
\* (POISONED after a producer's panic included), exactly one of the producer
\* slot and the result slot is occupied.
C23_ExactlyOneSlotOccupied ==
  Tag(state) \in {UNCALCULATED, CALCULATED, POISONED} =>
    ((func # None) # (value # None))

\* C23 as amended: under UNCALCULATED and under CALCULATED exactly one of the
\* two slots is occupied; under POISONED both are empty, the producer having
\* been moved out of its slot before it was called (line 77) and no result
\* written.
C23_OneSlotUnlessPoisoned ==
  /\ Tag(state) \in {UNCALCULATED, CALCULATED} =>
       ((func # None) # (value # None))
  /\ Tag(state) = POISONED => (func = None /\ value = None)

\* C23 happens: the cell is POISONED for the second time, the producer that
\* unpoison installed having panicked as well.
C23_Witness ==
  /\ state = POISONED
  /\ wins = 1
  /\ calls = 2
  /\ func = None
  /\ value = None

\* C24: a waiter that has seen signaled = true (and is about to execute the
\* reload of line 107) reloads a word whose tag is CALCULATED or POISONED,
\* never UNCALCULATED and never WORKING.
C24_ReloadSeesCalculatedOrPoisoned ==
  \A t \in Threads :
    pc[t] = "get_reload" => Tag(state) \in {CALCULATED, POISONED}

\* C24 as amended: the reloaded tag is CALCULATED or POISONED as long as no
\* unpoison or unpoison_with_value call has succeeded.  Once one has, the
\* reload can also find UNCALCULATED, which only a successful unpoison
\* publishes, or WORKING, which takes an entry into WORKING later than the
\* epoch the waiter enqueued in.
C24_ReloadSeesPublishedTag ==
  \A t \in Threads :
    pc[t] = "get_reload" =>
      /\ Recoveries = 0 => Tag(state) \in {CALCULATED, POISONED}
      /\ Tag(state) = UNCALCULATED => wins >= 1
      /\ Tag(state) = WORKING => (epoch > joined[t] /\ Recoveries >= 1)

\* C24 happens: a waiter enqueued while unpoison was rewriting the cell, was
\* signaled by that publish, and has reloaded UNCALCULATED.
C24_Witness ==
  \E t \in Threads :
    /\ pc[t] = "get_match"
    /\ lstate[t] = UNCALCULATED
    /\ tickets = 1
    /\ \A u \in Threads : ticket[u] = 0
    /\ wins = 1

\* The tag steps of the state word: entry of get, entry of unpoison*, publish.
GetEntry == <<UNCALCULATED, WORKING>>
RecoveryEntry == <<POISONED, WORKING>>
Publishes ==
  {<<WORKING, CALCULATED>>, <<WORKING, POISONED>>, <<WORKING, UNCALCULATED>>}

\* C25: the tag of the state word changes only from UNCALCULATED to WORKING,
\* in the entry compare_exchange of get; from POISONED to WORKING, in that of
\* unpoison or unpoison_with_value; and from WORKING to CALCULATED, POISONED
\* or UNCALCULATED, in the holder's publish swap.  There is no step from
\* UNCALCULATED to CALCULATED, from POISONED to UNCALCULATED or CALCULATED,
\* and none out of CALCULATED.
C25_TagStepsThroughWorking ==
  /\ [][Tag(state') # Tag(state) =>
          LET step == <<Tag(state), Tag(state')>> IN
            /\ step \in {GetEntry, RecoveryEntry} \cup Publishes
            /\ step = GetEntry => \E t \in Threads : Get_Uncalculated(t)
            /\ step = RecoveryEntry => \E t \in Threads : UnpoisonCall(t)
            /\ step \in Publishes =>
                 \E h \in Holders : Finish_Drop_Swap(h) /\ Tag(state') = dest[h]]_vars
  /\ [][Tag(state) = CALCULATED => state' = state]_vars

\* C25 happens: the word has gone UNCALCULATED, WORKING, POISONED, WORKING and
\* back to UNCALCULATED.
C25_Witness ==
  /\ state = UNCALCULATED
  /\ poisonings = 1
  /\ wins = 1
  /\ epoch = 2

\* The producer of the AliasableMemo has panicked inside get, the panic was
\* caught, and the owner has the cell again.
Unwound == apc = "idle" /\ amemo.calculating_state = "Calculating"

\* C27: when the producer of an AliasableMemo panics inside get (by itself or
\* through its own get on the cell), the flag is left at Calculating; from then
\* on the flag and the cell stay as they are, every get panics with the
\* message of line 38, every try_get hands back None, and the producer is not
\* invoked again.
C27_NoRecoveryAfterProducerPanic ==
  /\ [][(apc \in {"running", "resumed"} /\ apc' = "idle" /\ aret' \in Panics) =>
          Unwound']_vars
  /\ [](Unwound => acalls = 1)
  /\ [][Unwound => (Unwound' /\ amemo' = amemo /\ acalls' = acalls)]_vars
  /\ [][(Unwound /\ Aliasable_Get) => aret' = AccessPanic]_vars
  /\ [][(Unwound /\ Aliasable_TryGet) => aret' = Absent]_vars

\* C27 happens: the producer panicked in the first get, a try_get then handed
\* back None and a second get has just panicked.
C27_Witness ==
  /\ Unwound
  /\ reenter = "none"
  /\ script = <<"get", "try_get", "get">>
  /\ adone = 3
  /\ aret = AccessPanic
  /\ acalls = 1

\* Thread t is in the get its producer made on the cell t is the holder of.
Inner(t) == outer[t] # "none"

\* C26: a get made by the producer on its own cell loads a WORKING word, and
\* from then on the thread is in the waiter arm of that call, up to its
\* enqueue or, enqueued with its flag clear, between the flag check and park;
\* the call never returns and the word stays WORKING.  A try_get made by the
\* producer hands back Ok(None) and leaves the word alone.
C26_ReentrantGetDeadlocks ==
  /\ [][\A t \in Threads :
          Get_InnerGet(t) => (Tag(state) = WORKING /\ lstate'[t] = state)]_vars
  /\ [](\A t \in Threads :
          Inner(t) =>
            /\ Tag(state) = WORKING
            /\ Tag(lstate[t]) = WORKING
            /\ pc[t] \in {"get_match", "get_enqueue"} \cup Parking
            /\ pc[t] \in Parking =>
                 (t \in Range(StateChain) /\ ~spin[t].signaled))
  /\ [][\A t \in Threads : Inner(t) => (Inner(t)' /\ outer'[t] = outer[t])]_vars
  /\ [][\A t \in Threads :
          Get_InnerTryGet(t) => (tinner' = OkNone /\ state' = state)]_vars

\* C26 happens: the holder is parked in its producer's get, behind a waiter
\* of another thread on the chain of the WORKING word.
C26_Witness ==
  \E t \in Threads :
    /\ Inner(t)
    /\ pc[t] = "get_park"
    /\ StateChain # <<t>>
    /\ Len(StateChain) = 2

====
